---- MODULE Spec2Model ----
(***************************************************************************)
(* Model of patterns/circuit_breaker.go: the CircuitBreaker struct, its    *)
(* constructor and the Call and GetState methods, executed by several      *)
(* goroutines that share one breaker and one clock; and of the goroutines  *)
(* and channels of the concurrent demonstrations (worker pool, fan-out and *)
(* fan-in, pipeline, select with timeout), each under its own              *)
(* specification.                                                          *)
(***************************************************************************)
EXTENDS Integers, Sequences, FiniteSets, TLC

(* ---- bounds of the model ---- *)
NumProcs == 2
MaxCalls == 4
MaxTime == 4
MaxThreshold == 3
MaxTimeout == 2

Procs == 1..NumProcs
Thresholds == 0..MaxThreshold
Timeouts == 1..MaxTimeout

(* ---- CircuitState (iota constants) ---- *)
CLOSED == 0
OPEN == 1
HALF_OPEN == 2
CircuitStates == {CLOSED, OPEN, HALF_OPEN}

(* ---- error values: an error is its message, nil is Nil ---- *)
Nil == "nil"
ErrOpen == "circuit breaker is OPEN"
ErrUnavailable == "service unavailable"
OpErrors == {ErrUnavailable, ErrOpen}
NoResult == "pending"

(* the zero time.Time of a breaker that has recorded no failure yet *)
ZeroTime == -1
MaxDuration == 1000000

VARIABLES
    state,            \* cb.state
    failureCount,     \* cb.failureCount
    lastFailure,      \* cb.lastFailure
    failureThreshold, \* cb.failureThreshold
    timeout,          \* cb.timeout
    mutex,            \* cb.mutex: 0 when free, else the goroutine holding Lock
    readers,          \* cb.mutex: the goroutines holding RLock
    now,              \* the clock read by time.Now and time.Since
    pc,               \* position of each goroutine inside Call or GetState
    got,              \* value the goroutine's GetState is returning
    ret,              \* value returned by the goroutine's latest Call
    fnCalls,          \* times the current Call of a goroutine has invoked fn
    fnResult,         \* what fn returned to the current Call of a goroutine
    probe,            \* whether the current Call made the OPEN -> HALF_OPEN move
    arrival,          \* what the breaker looked like when the Call was issued
    invoked,          \* invocation counter of the wrapped operation
    window,           \* number of OPEN -> HALF_OPEN transitions so far
    started,          \* number of Calls issued so far
    log               \* outcomes of the finished operations and rejections

(* ---- runWorkerPoolConcurrent (patterns/worker_pool.go) ---- *)
(* the pool is run with fewer jobs than the 10 of line 35; both channels   *)
(* keep the capacity numJobs of lines 37 and 38                            *)
numWorkers == 3
numJobs == 4

VARIABLES
    jobs,             \* buffered channel jobs: the values it holds, in order
    jobsClosed,       \* close(jobs) has run
    results,          \* buffered channel results
    resultsClosed,    \* close(results) has run
    wg,               \* counter of the sync.WaitGroup
    poolPc,           \* position of runWorkerPoolConcurrent
    nextWorker,       \* loop variable w of line 43
    nextJob,          \* loop variable j of line 49
    completed,        \* completed
    workerPc,         \* position of each worker goroutine
    job,              \* loop variable job of each worker
    received,         \* how often each job was received from jobs
    written,          \* how often each job was sent to results
    poolPanic         \* a send on, or a close of, a closed channel happened

poolVars == <<jobs, jobsClosed, results, resultsClosed, wg, poolPc,
              nextWorker, nextJob, completed, workerPc, job, received,
              written, poolPanic>>

(* ---- runFanOutFanInConcurrent (lines 298-334 of the fan-out file) ---- *)
(* the demonstration is run on the first MaxNumbers of its 10 numbers      *)
MaxNumbers == 5
numFanWorkers == 3
numbers == [n \in 1..MaxNumbers |-> n]

VARIABLES
    inputClosed,      \* close(input) has run
    outputsClosed,    \* for each worker, close(output) has run
    mergedClosed,     \* close(output) of fanIn has run
    fanWg,            \* counter of fanIn's sync.WaitGroup
    fanPc,            \* position of runFanOutFanInConcurrent
    fanI,             \* loop variable i of line 310
    fanInI,           \* how many inputs the loop of line 367 has handled
    senderPc,         \* position of the goroutine of lines 317-322
    nextNum,          \* index of the next number of the loop of line 319
    fanWorkerPc,      \* position of each fanOutWorker
    num,              \* loop variable num of each fanOutWorker
    result,           \* result of each fanOutWorker
    forwarderPc,      \* position of each goroutine of lines 369-374
    val,              \* loop variable val of each of them
    closerPc,         \* position of the goroutine of lines 378-381
    processed,        \* processed
    squared,          \* how often each number was squared
    delivered,        \* how often each square was received from the merge
    fanPanic          \* a send on, or a close of, a closed channel happened

fanVars == <<inputClosed, outputsClosed, mergedClosed, fanWg, fanPc, fanI,
             fanInI, senderPc, nextNum, fanWorkerPc, num, result,
             forwarderPc, val, closerPc, processed, squared, delivered,
             fanPanic>>

(* ---- runPipelineConcurrent (lines 146-265 of the pipeline file) ---- *)
(* rawData has 8 items (lines 149-158); an item is its index in rawData    *)
(* and the list of the stages that have worked on it                       *)
numItems == 8
rawData == [n \in 1..numItems |-> [id |-> n, ops |-> <<>>]]
numStages == 3

VARIABLES
    pipePc,           \* position of runPipelineConcurrent
    stagesStarted,    \* how many of the four goroutines have been started
    stagePc,          \* position of the generator (0) and the stages (1..3)
    data,             \* the item each stage holds
    outClosed,        \* for each goroutine, close(out) has run
    nextItem,         \* index of the next item of the loop of line 213
    passed,           \* how many items each goroutine has sent on out
    collected,        \* the items received from analyzed, in order
    pipeProcessed     \* processed

pipeVars == <<pipePc, stagesStarted, stagePc, data, outClosed, nextItem,
              passed, collected, pipeProcessed>>

(* ---- runSelectTimeoutConcurrent (patterns/select_timeout.go) ---- *)
(* the loop is run over the first numServices of the 5 services of lines   *)
(* 35-41                                                                   *)
(* durations are counted in ticks of a quarter of a second: the timeout of *)
(* lines 74 and 87 is 2 ticks, the response time of line 53 (100 to 899    *)
(* milliseconds) is 1 to MaxResponse ticks                                 *)
numServices == 2
TimeoutTicks == 2
MaxResponse == 4

VARIABLES
    selPc,            \* position of runSelectTimeoutConcurrent
    svc,              \* index of the service of the current iteration
    healthyServices,  \* healthyServices
    failedServices,   \* failedServices
    timeoutServices,  \* timeoutServices
    timer,            \* ticks until the channel of time.After is ready
    checkPc,          \* position of each health-check goroutine
    isDown,           \* outcome of rand.Float32() < 0.2 in each of them
    remaining,        \* ticks left of the time.Sleep of each of them
    resultCh,         \* the resultCh of each iteration
    errorCh           \* the errorCh of each iteration

selVars == <<selPc, svc, healthyServices, failedServices, timeoutServices,
             timer, checkPc, isDown, remaining, resultCh, errorCh>>

breakerVars == <<state, failureCount, lastFailure, failureThreshold, timeout,
                 mutex, readers, now, pc, got, ret, fnCalls, fnResult, probe,
                 arrival, invoked, window, started, log>>

(* the variables of the demonstrations, which no step of the breaker reads *)
demoVars == <<poolVars, fanVars, pipeVars, selVars>>

vars == <<state, failureCount, lastFailure, failureThreshold, timeout, mutex,
          readers, now, pc, got, ret, fnCalls, fnResult, probe, arrival,
          invoked, window, started, log, demoVars>>

cbVars == <<state, failureCount, lastFailure>>
cfgVars == <<failureThreshold, timeout>>
callVars == <<ret, fnCalls, fnResult, probe, arrival>>
readVars == <<readers, got>>
NoState == -1

(* time.Since(t): the zero time lies further back than any duration *)
Since(t) == IF t = ZeroTime THEN MaxDuration ELSE now - t

TimeoutElapsed_NonStrict == Since(lastFailure) >= timeout

(* the test of line 53 *)
TimeoutElapsed == Since(lastFailure) > timeout

NoArrival == [open |-> FALSE, expired |-> FALSE, win |-> 0]

Workers == 1..numWorkers
Jobs == 1..numJobs
NoJob == 0

(* lines 37-40: both channels empty and open, no goroutine started *)
PoolInit ==
    /\ jobs = <<>>
    /\ jobsClosed = FALSE
    /\ results = <<>>
    /\ resultsClosed = FALSE
    /\ wg = 0
    /\ poolPc = "start"
    /\ nextWorker = 1
    /\ nextJob = 1
    /\ completed = 0
    /\ workerPc = [k \in Workers |-> "unborn"]
    /\ job = [k \in Workers |-> NoJob]
    /\ received = [b \in Jobs |-> 0]
    /\ written = [b \in Jobs |-> 0]
    /\ poolPanic = FALSE

FanWorkers == 1..numFanWorkers
Numbers == {numbers[n] : n \in 1..Len(numbers)}
Squares == {n * n : n \in Numbers}

(* line 304: the input channel exists, nothing else does yet *)
FanInit ==
    /\ inputClosed = FALSE
    /\ outputsClosed = [k \in FanWorkers |-> FALSE]
    /\ mergedClosed = FALSE
    /\ fanWg = 0
    /\ fanPc = "workers"
    /\ fanI = 0
    /\ fanInI = 0
    /\ senderPc = "unborn"
    /\ nextNum = 1
    /\ fanWorkerPc = [k \in FanWorkers |-> "unborn"]
    /\ num = [k \in FanWorkers |-> 0]
    /\ result = [k \in FanWorkers |-> 0]
    /\ forwarderPc = [k \in FanWorkers |-> "unborn"]
    /\ val = [k \in FanWorkers |-> 0]
    /\ closerPc = "unborn"
    /\ processed = 0
    /\ squared = [n \in Numbers |-> 0]
    /\ delivered = [v \in Squares |-> 0]
    /\ fanPanic = FALSE

Goroutines == 0..numStages
Stages == 1..numStages
NoItem == [id |-> 0, ops |-> <<>>]

(* lines 149-158: only rawData exists *)
PipeInit ==
    /\ pipePc = "build"
    /\ stagesStarted = 0
    /\ stagePc = [i \in Goroutines |-> "unborn"]
    /\ data = [i \in Goroutines |-> NoItem]
    /\ outClosed = [i \in Goroutines |-> FALSE]
    /\ nextItem = 1
    /\ passed = [i \in Goroutines |-> 0]
    /\ collected = <<>>
    /\ pipeProcessed = 0

Services == 1..numServices
ResponseTicks == 1..MaxResponse
NoTimer == -1

(* lines 35-43: the counters are zero, no health check has started *)
SelInit ==
    /\ selPc = "spawn"
    /\ svc = 1
    /\ healthyServices = 0
    /\ failedServices = 0
    /\ timeoutServices = 0
    /\ timer = NoTimer
    /\ checkPc = [c \in Services |-> "unborn"]
    /\ isDown = [c \in Services |-> FALSE]
    /\ remaining = [c \in Services |-> 0]
    /\ resultCh = [c \in Services |-> <<>>]
    /\ errorCh = [c \in Services |-> <<>>]

(* NewCircuitBreaker(threshold, timeout) *)
Init ==
    /\ state = CLOSED
    /\ failureCount = 0
    /\ lastFailure = ZeroTime
    /\ failureThreshold \in Thresholds
    /\ timeout \in Timeouts
    /\ mutex = 0
    /\ readers = {}
    /\ now = 0
    /\ pc = [g \in Procs |-> "idle"]
    /\ got = [g \in Procs |-> NoState]
    /\ ret = [g \in Procs |-> NoResult]
    /\ fnCalls = [g \in Procs |-> 0]
    /\ fnResult = [g \in Procs |-> NoResult]
    /\ probe = [g \in Procs |-> FALSE]
    /\ arrival = [g \in Procs |-> NoArrival]
    /\ invoked = 0
    /\ window = 0
    /\ started = 0
    /\ log = <<>>
    /\ PoolInit
    /\ FanInit
    /\ PipeInit
    /\ SelInit

(* the passage of time *)
Tick ==
    /\ now < MaxTime
    /\ now' = now + 1
    /\ UNCHANGED <<cbVars, cfgVars, demoVars, readVars, callVars, mutex, pc, invoked,
                   window, started, log>>

(* a goroutine issues cb.Call(fn) *)
CallEnter(g) ==
    /\ pc[g] = "idle"
    /\ started < MaxCalls
    /\ started' = started + 1
    /\ pc' = [pc EXCEPT ![g] = "lock"]
    /\ arrival' = [arrival EXCEPT ![g] =
                     [open |-> state = OPEN,
                      expired |-> state = OPEN /\ TimeoutElapsed,
                      win |-> window]]
    /\ UNCHANGED <<cbVars, cfgVars, demoVars, readVars, mutex, now, ret, fnCalls,
                   fnResult, probe, invoked, window, log>>

CallLock_NoExclusion(g) ==
    /\ pc[g] = "lock"
    /\ mutex' = g
    /\ pc' = [pc EXCEPT ![g] = "check"]
    /\ UNCHANGED <<cbVars, cfgVars, demoVars, readVars, callVars, now, invoked, window,
                   started, log>>

CallLock_IgnoreReaders(g) ==
    /\ pc[g] = "lock"
    /\ mutex = 0
    /\ mutex' = g
    /\ pc' = [pc EXCEPT ![g] = "check"]
    /\ UNCHANGED <<cbVars, cfgVars, demoVars, readVars, callVars, now, invoked, window,
                   started, log>>

(* cb.mutex.Lock() *)
CallLock(g) ==
    /\ pc[g] = "lock"
    /\ mutex = 0
    /\ readers = {}
    /\ mutex' = g
    /\ pc' = [pc EXCEPT ![g] = "check"]
    /\ UNCHANGED <<cbVars, cfgVars, demoVars, readVars, callVars, now, invoked, window,
                   started, log>>

CallCheck_KeepCount(g) ==
    /\ pc[g] = "check"
    /\ IF state = OPEN
       THEN IF TimeoutElapsed
            THEN /\ state' = HALF_OPEN
                 /\ probe' = [probe EXCEPT ![g] = TRUE]
                 /\ window' = window + 1
                 /\ pc' = [pc EXCEPT ![g] = "fn"]
                 /\ UNCHANGED <<failureCount, ret, log>>
            ELSE /\ ret' = [ret EXCEPT ![g] = ErrOpen]
                 /\ log' = Append(log, [kind |-> "rej", pre |-> OPEN])
                 /\ pc' = [pc EXCEPT ![g] = "unlock"]
                 /\ UNCHANGED <<state, failureCount, probe, window>>
       ELSE /\ pc' = [pc EXCEPT ![g] = "fn"]
            /\ UNCHANGED <<state, failureCount, probe, window, ret, log>>
    /\ UNCHANGED <<lastFailure, cfgVars, demoVars, readVars, mutex, now, fnCalls,
                   fnResult, arrival, invoked, started>>

CallCheck_NoStateTest(g) ==
    /\ pc[g] = "check"
    /\ IF TimeoutElapsed
       THEN /\ state' = HALF_OPEN
            /\ failureCount' = 0
            /\ probe' = [probe EXCEPT ![g] = TRUE]
            /\ window' = window + 1
            /\ pc' = [pc EXCEPT ![g] = "fn"]
            /\ UNCHANGED <<ret, log>>
       ELSE IF state = OPEN
            THEN /\ ret' = [ret EXCEPT ![g] = ErrOpen]
                 /\ log' = Append(log, [kind |-> "rej", pre |-> OPEN])
                 /\ pc' = [pc EXCEPT ![g] = "unlock"]
                 /\ UNCHANGED <<state, failureCount, probe, window>>
            ELSE /\ pc' = [pc EXCEPT ![g] = "fn"]
                 /\ UNCHANGED <<state, failureCount, probe, window, ret, log>>
    /\ UNCHANGED <<lastFailure, cfgVars, demoVars, readVars, mutex, now, fnCalls,
                   fnResult, arrival, invoked, started>>

CallCheck_RejectRefreshes(g) ==
    /\ pc[g] = "check"
    /\ IF state = OPEN
       THEN IF TimeoutElapsed
            THEN /\ state' = HALF_OPEN
                 /\ failureCount' = 0
                 /\ probe' = [probe EXCEPT ![g] = TRUE]
                 /\ window' = window + 1
                 /\ pc' = [pc EXCEPT ![g] = "fn"]
                 /\ UNCHANGED <<lastFailure, ret, log>>
            ELSE /\ ret' = [ret EXCEPT ![g] = ErrOpen]
                 /\ lastFailure' = now
                 /\ log' = Append(log, [kind |-> "rej", pre |-> OPEN])
                 /\ pc' = [pc EXCEPT ![g] = "unlock"]
                 /\ UNCHANGED <<state, failureCount, probe, window>>
       ELSE /\ pc' = [pc EXCEPT ![g] = "fn"]
            /\ UNCHANGED <<state, failureCount, lastFailure, probe, window,
                           ret, log>>
    /\ UNCHANGED <<cfgVars, demoVars, readVars, mutex, now, fnCalls, fnResult, arrival,
                   invoked, started>>

(* if cb.state == OPEN { ... } *)
CallCheck(g) ==
    /\ pc[g] = "check"
    /\ IF state = OPEN
       THEN IF TimeoutElapsed
            THEN /\ state' = HALF_OPEN
                 /\ failureCount' = 0
                 /\ probe' = [probe EXCEPT ![g] = TRUE]
                 /\ window' = window + 1
                 /\ pc' = [pc EXCEPT ![g] = "fn"]
                 /\ UNCHANGED <<ret, log>>
            ELSE /\ ret' = [ret EXCEPT ![g] = ErrOpen]
                 /\ log' = Append(log, [kind |-> "rej", pre |-> OPEN])
                 /\ pc' = [pc EXCEPT ![g] = "unlock"]
                 /\ UNCHANGED <<state, failureCount, probe, window>>
       ELSE /\ pc' = [pc EXCEPT ![g] = "fn"]
            /\ UNCHANGED <<state, failureCount, probe, window, ret, log>>
    /\ UNCHANGED <<lastFailure, cfgVars, demoVars, readVars, mutex, now, fnCalls,
                   fnResult, arrival, invoked, started>>

CallFn_Unlocked(g) ==
    /\ pc[g] = "fn"
    /\ mutex' = 0
    /\ invoked' = invoked + 1
    /\ fnCalls' = [fnCalls EXCEPT ![g] = @ + 1]
    /\ pc' = [pc EXCEPT ![g] = "running"]
    /\ UNCHANGED <<cbVars, cfgVars, demoVars, readVars, now, ret, fnResult, probe,
                   arrival, window, started, log>>

(* err := fn(): the wrapped operation starts *)
CallFn(g) ==
    /\ pc[g] = "fn"
    /\ invoked' = invoked + 1
    /\ fnCalls' = [fnCalls EXCEPT ![g] = @ + 1]
    /\ pc' = [pc EXCEPT ![g] = "running"]
    /\ UNCHANGED <<cbVars, cfgVars, demoVars, readVars, mutex, now, ret, fnResult,
                   probe, arrival, window, started, log>>

StateOnFailure_OffByOne(s, count) ==
    IF s = HALF_OPEN THEN OPEN
    ELSE IF count > failureThreshold THEN OPEN ELSE s

StateOnFailure_ThresholdOnly(s, count) ==
    IF count >= failureThreshold THEN OPEN ELSE s

(* the state after an operation failure (lines 65-73) *)
StateOnFailure(s, count) ==
    IF s = HALF_OPEN THEN OPEN
    ELSE IF count >= failureThreshold THEN OPEN ELSE s

ReturnValue_Replaced(err) == IF err = Nil THEN Nil ELSE ErrUnavailable

(* what Call hands back after the operation ran: return err, return nil *)
ReturnValue(err) == err

(* the operation returns err != nil *)
CallFail(g, err) ==
    /\ pc[g] = "running"
    /\ err \in OpErrors
    /\ failureCount' = failureCount + 1
    /\ state' = StateOnFailure(state, failureCount + 1)
    /\ lastFailure' = now
    /\ fnResult' = [fnResult EXCEPT ![g] = err]
    /\ ret' = [ret EXCEPT ![g] = ReturnValue(err)]
    /\ log' = Append(log, [kind |-> "fail", pre |-> state])
    /\ pc' = [pc EXCEPT ![g] = "unlock"]
    /\ UNCHANGED <<cfgVars, demoVars, readVars, mutex, now, fnCalls, probe, arrival,
                   invoked, window, started>>

StateOnSuccess_Stay(s) == s

(* the state after a success (lines 78-80) *)
StateOnSuccess(s) == IF s = HALF_OPEN THEN CLOSED ELSE s

CountOnSuccess_Keep(count) == count

(* cb.failureCount = 0 on the success path (line 81) *)
CountOnSuccess(count) == 0

(* the operation returns nil *)
CallSuccess(g) ==
    /\ pc[g] = "running"
    /\ state' = StateOnSuccess(state)
    /\ failureCount' = CountOnSuccess(failureCount)
    /\ fnResult' = [fnResult EXCEPT ![g] = Nil]
    /\ ret' = [ret EXCEPT ![g] = ReturnValue(Nil)]
    /\ log' = Append(log, [kind |-> "ok", pre |-> state])
    /\ pc' = [pc EXCEPT ![g] = "unlock"]
    /\ UNCHANGED <<lastFailure, cfgVars, demoVars, readVars, mutex, now, fnCalls, probe,
                   arrival, invoked, window, started>>

(* defer cb.mutex.Unlock(), and Call returns: its frame is gone *)
CallUnlock(g) ==
    /\ pc[g] = "unlock"
    /\ mutex' = 0
    /\ pc' = [pc EXCEPT ![g] = "idle"]
    /\ ret' = [ret EXCEPT ![g] = NoResult]
    /\ fnCalls' = [fnCalls EXCEPT ![g] = 0]
    /\ fnResult' = [fnResult EXCEPT ![g] = NoResult]
    /\ probe' = [probe EXCEPT ![g] = FALSE]
    /\ arrival' = [arrival EXCEPT ![g] = NoArrival]
    /\ UNCHANGED <<cbVars, cfgVars, demoVars, readVars, now, invoked, window, started, log>>

Next ==
    \/ Tick
    \/ \E g \in Procs : CallEnter(g)
    \/ \E g \in Procs : CallLock(g)
    \/ \E g \in Procs : CallCheck(g)
    \/ \E g \in Procs : CallFn(g)
    \/ \E g \in Procs : \E err \in OpErrors : CallFail(g, err)
    \/ \E g \in Procs : CallSuccess(g)
    \/ \E g \in Procs : CallUnlock(g)

Spec == Init /\ [][Next]_vars

(* ---------------------------------------------------------------------- *)
(* GetState, called by any goroutine that is not inside Call               *)
(* ---------------------------------------------------------------------- *)
(* a goroutine issues cb.GetState() *)
GetStateEnter(g) ==
    /\ pc[g] = "idle"
    /\ pc' = [pc EXCEPT ![g] = "rlock"]
    /\ UNCHANGED <<cbVars, cfgVars, demoVars, readVars, callVars, mutex, now, invoked,
                   window, started, log>>

GetStateRLock_NoLock(g) ==
    /\ pc[g] = "rlock"
    /\ readers' = readers \cup {g}
    /\ got' = [got EXCEPT ![g] = state]
    /\ pc' = [pc EXCEPT ![g] = "runlock"]
    /\ UNCHANGED <<cbVars, cfgVars, demoVars, callVars, mutex, now, invoked, window,
                   started, log>>

GetStateRLock_Lazy(g) ==
    /\ pc[g] = "rlock"
    /\ mutex = 0
    /\ readers' = readers \cup {g}
    /\ state' = IF state = OPEN /\ TimeoutElapsed THEN HALF_OPEN ELSE state
    /\ got' = [got EXCEPT ![g] = state']
    /\ pc' = [pc EXCEPT ![g] = "runlock"]
    /\ UNCHANGED <<failureCount, lastFailure, cfgVars, demoVars, callVars, mutex, now,
                   invoked, window, started, log>>

(* cb.mutex.RLock(); return cb.state: the result is evaluated *)
GetStateRLock(g) ==
    /\ pc[g] = "rlock"
    /\ mutex = 0
    /\ readers' = readers \cup {g}
    /\ got' = [got EXCEPT ![g] = state]
    /\ pc' = [pc EXCEPT ![g] = "runlock"]
    /\ UNCHANGED <<cbVars, cfgVars, demoVars, callVars, mutex, now, invoked, window,
                   started, log>>

(* defer cb.mutex.RUnlock(), and GetState returns *)
GetStateRUnlock(g) ==
    /\ pc[g] = "runlock"
    /\ readers' = readers \ {g}
    /\ got' = [got EXCEPT ![g] = NoState]
    /\ pc' = [pc EXCEPT ![g] = "idle"]
    /\ UNCHANGED <<cbVars, cfgVars, demoVars, callVars, mutex, now, invoked, window,
                   started, log>>

NextG ==
    \/ Next
    \/ \E g \in Procs : GetStateEnter(g)
    \/ \E g \in Procs : GetStateRLock(g)
    \/ \E g \in Procs : GetStateRUnlock(g)

(* Call and GetState together *)
SpecG == Init /\ [][NextG]_vars

(* ---------------------------------------------------------------------- *)
(* Unbounded runs: the same steps of Call without the bookkeeping of the   *)
(* finished calls, under a clock that keeps only what line 53 reads of it  *)
(* ---------------------------------------------------------------------- *)
(* time passes; once the clock has reached MaxTime its origin moves on     *)
(* instead, until more than the timeout separates now from lastFailure     *)
TickL ==
    /\ IF now < MaxTime
       THEN now' = now + 1 /\ lastFailure' = lastFailure
       ELSE /\ now' = now
            /\ lastFailure' = IF lastFailure = ZeroTime \/ TimeoutElapsed
                               THEN lastFailure
                               ELSE lastFailure - 1
    /\ UNCHANGED <<state, failureCount, cfgVars, demoVars, readVars, callVars, mutex, pc,
                   invoked, window, started, log>>

(* a goroutine issues cb.Call(fn) *)
CallEnterL(g) ==
    /\ pc[g] = "idle"
    /\ pc' = [pc EXCEPT ![g] = "lock"]
    /\ UNCHANGED <<cbVars, cfgVars, demoVars, readVars, callVars, mutex, now, invoked,
                   window, started, log>>

CallCheckL_RejectRefreshes(g) ==
    /\ pc[g] = "check"
    /\ IF state = OPEN
       THEN IF TimeoutElapsed
            THEN /\ state' = HALF_OPEN
                 /\ failureCount' = 0
                 /\ probe' = [probe EXCEPT ![g] = TRUE]
                 /\ pc' = [pc EXCEPT ![g] = "fn"]
                 /\ UNCHANGED <<lastFailure, ret>>
            ELSE /\ ret' = [ret EXCEPT ![g] = ErrOpen]
                 /\ lastFailure' = now
                 /\ pc' = [pc EXCEPT ![g] = "unlock"]
                 /\ UNCHANGED <<state, failureCount, probe>>
       ELSE /\ pc' = [pc EXCEPT ![g] = "fn"]
            /\ UNCHANGED <<state, failureCount, lastFailure, probe, ret>>
    /\ UNCHANGED <<cfgVars, demoVars, readVars, mutex, now, fnCalls, fnResult, arrival,
                   invoked, window, started, log>>

(* if cb.state == OPEN { ... } *)
CallCheckL(g) ==
    /\ pc[g] = "check"
    /\ IF state = OPEN
       THEN IF TimeoutElapsed
            THEN /\ state' = HALF_OPEN
                 /\ failureCount' = 0
                 /\ probe' = [probe EXCEPT ![g] = TRUE]
                 /\ pc' = [pc EXCEPT ![g] = "fn"]
                 /\ UNCHANGED ret
            ELSE /\ ret' = [ret EXCEPT ![g] = ErrOpen]
                 /\ pc' = [pc EXCEPT ![g] = "unlock"]
                 /\ UNCHANGED <<state, failureCount, probe>>
       ELSE /\ pc' = [pc EXCEPT ![g] = "fn"]
            /\ UNCHANGED <<state, failureCount, probe, ret>>
    /\ UNCHANGED <<lastFailure, cfgVars, demoVars, readVars, mutex, now, fnCalls,
                   fnResult, arrival, invoked, window, started, log>>

(* err := fn(): the wrapped operation starts *)
CallFnL(g) ==
    /\ pc[g] = "fn"
    /\ pc' = [pc EXCEPT ![g] = "running"]
    /\ UNCHANGED <<cbVars, cfgVars, demoVars, readVars, callVars, mutex, now, invoked,
                   window, started, log>>

(* the operation returns err != nil *)
CallFailL(g, err) ==
    /\ pc[g] = "running"
    /\ err \in OpErrors
    /\ failureCount' = failureCount + 1
    /\ state' = StateOnFailure(state, failureCount + 1)
    /\ lastFailure' = now
    /\ ret' = [ret EXCEPT ![g] = ReturnValue(err)]
    /\ pc' = [pc EXCEPT ![g] = "unlock"]
    /\ UNCHANGED <<cfgVars, demoVars, readVars, mutex, now, fnCalls, fnResult, probe,
                   arrival, invoked, window, started, log>>

(* the operation returns nil *)
CallSuccessL(g) ==
    /\ pc[g] = "running"
    /\ state' = StateOnSuccess(state)
    /\ failureCount' = CountOnSuccess(failureCount)
    /\ ret' = [ret EXCEPT ![g] = ReturnValue(Nil)]
    /\ pc' = [pc EXCEPT ![g] = "unlock"]
    /\ UNCHANGED <<lastFailure, cfgVars, demoVars, readVars, mutex, now, fnCalls,
                   fnResult, probe, arrival, invoked, window, started, log>>

Arrives == \E g \in Procs : CallEnterL(g)
Proceeds ==
    \E g \in Procs :
        CallLock(g) \/ CallCheckL(g) \/ CallFnL(g) \/ CallUnlock(g)
Fails == \E g \in Procs : \E err \in OpErrors : CallFailL(g, err)
Succeeds == \E g \in Procs : CallSuccessL(g)

NextL ==
    \/ TickL
    \/ Arrives
    \/ Proceeds
    \/ Fails
    \/ Succeeds

(* Calls keep arriving and are scheduled, time keeps advancing, every      *)
(* operation returns, and an operation that is tried again and again       *)
(* eventually succeeds                                                     *)
LiveFairness ==
    /\ WF_vars(TickL)
    /\ WF_vars(Arrives)
    /\ WF_vars(Proceeds)
    /\ WF_vars(Fails \/ Succeeds)
    /\ SF_vars(Succeeds)

SpecL == Init /\ [][NextL]_vars /\ LiveFairness

(* ---------------------------------------------------------------------- *)
(* runWorkerPoolConcurrent and its worker goroutines                       *)
(* (patterns/worker_pool.go, lines 32-65 and 77-83)                        *)
(* ---------------------------------------------------------------------- *)
notPool == <<breakerVars, fanVars, pipeVars, selVars>>

(* lines 43-46: wg.Add(1); go worker(w, jobs, results, &wg) *)
StartWorker ==
    /\ poolPc = "start"
    /\ IF nextWorker <= numWorkers
       THEN /\ wg' = wg + 1
            /\ workerPc' = [workerPc EXCEPT ![nextWorker] = "range"]
            /\ nextWorker' = nextWorker + 1
            /\ UNCHANGED poolPc
       ELSE /\ poolPc' = "send"
            /\ UNCHANGED <<wg, workerPc, nextWorker>>
    /\ UNCHANGED <<jobs, jobsClosed, results, resultsClosed, nextJob,
                   completed, job, received, written, poolPanic, notPool>>

(* lines 49-51: jobs <- j, which blocks while the buffer is full *)
SendJob ==
    /\ poolPc = "send"
    /\ IF nextJob <= numJobs
       THEN /\ Len(jobs) < numJobs
            /\ jobs' = Append(jobs, nextJob)
            /\ nextJob' = nextJob + 1
            /\ UNCHANGED poolPc
       ELSE /\ poolPc' = "closeJobs"
            /\ UNCHANGED <<jobs, nextJob>>
    /\ UNCHANGED <<jobsClosed, results, resultsClosed, wg, nextWorker,
                   completed, workerPc, job, received, written, poolPanic,
                   notPool>>

(* line 52: close(jobs) *)
CloseJobs ==
    /\ poolPc = "closeJobs"
    /\ jobsClosed' = TRUE
    /\ poolPanic' = (poolPanic \/ jobsClosed)
    /\ poolPc' = "wait"
    /\ UNCHANGED <<jobs, results, resultsClosed, wg, nextWorker, nextJob,
                   completed, workerPc, job, received, written, notPool>>

WaitWorkers_Skipped ==
    /\ poolPc = "wait"
    /\ poolPc' = "closeResults"
    /\ UNCHANGED <<jobs, jobsClosed, results, resultsClosed, wg, nextWorker,
                   nextJob, completed, workerPc, job, received, written,
                   poolPanic, notPool>>

(* line 55: wg.Wait() returns when the counter is zero *)
WaitWorkers ==
    /\ poolPc = "wait"
    /\ wg = 0
    /\ poolPc' = "closeResults"
    /\ UNCHANGED <<jobs, jobsClosed, results, resultsClosed, wg, nextWorker,
                   nextJob, completed, workerPc, job, received, written,
                   poolPanic, notPool>>

(* line 56: close(results) *)
CloseResults ==
    /\ poolPc = "closeResults"
    /\ resultsClosed' = TRUE
    /\ poolPanic' = (poolPanic \/ resultsClosed)
    /\ poolPc' = "count"
    /\ UNCHANGED <<jobs, jobsClosed, results, wg, nextWorker, nextJob,
                   completed, workerPc, job, received, written, notPool>>

(* lines 60-62: for range results { completed++ } *)
CountResults ==
    /\ poolPc = "count"
    /\ IF results # <<>>
       THEN /\ results' = Tail(results)
            /\ completed' = completed + 1
            /\ UNCHANGED poolPc
       ELSE /\ resultsClosed
            /\ poolPc' = "done"
            /\ UNCHANGED <<results, completed>>
    /\ UNCHANGED <<jobs, jobsClosed, resultsClosed, wg, nextWorker, nextJob,
                   workerPc, job, received, written, poolPanic, notPool>>

(* line 79: for job := range jobs *)
WorkerReceive(k) ==
    /\ workerPc[k] = "range"
    /\ IF jobs # <<>>
       THEN /\ job' = [job EXCEPT ![k] = Head(jobs)]
            /\ jobs' = Tail(jobs)
            /\ received' = [received EXCEPT ![Head(jobs)] = @ + 1]
            /\ workerPc' = [workerPc EXCEPT ![k] = "sleep"]
       ELSE /\ jobsClosed
            /\ workerPc' = [workerPc EXCEPT ![k] = "deferred"]
            /\ UNCHANGED <<jobs, job, received>>
    /\ UNCHANGED <<jobsClosed, results, resultsClosed, wg, poolPc,
                   nextWorker, nextJob, completed, written, poolPanic,
                   notPool>>

(* line 80: time.Sleep(100 * time.Millisecond) *)
WorkerSleep(k) ==
    /\ workerPc[k] = "sleep"
    /\ workerPc' = [workerPc EXCEPT ![k] = "result"]
    /\ UNCHANGED <<jobs, jobsClosed, results, resultsClosed, wg, poolPc,
                   nextWorker, nextJob, completed, job, received, written,
                   poolPanic, notPool>>

(* line 81: results <- job, a panic when results is closed *)
WorkerSend(k) ==
    /\ workerPc[k] = "result"
    /\ IF resultsClosed
       THEN /\ poolPanic' = TRUE
            /\ workerPc' = [workerPc EXCEPT ![k] = "panicked"]
            /\ UNCHANGED <<results, written, job>>
       ELSE /\ Len(results) < numJobs
            /\ results' = Append(results, job[k])
            /\ written' = [written EXCEPT ![job[k]] = @ + 1]
            /\ job' = [job EXCEPT ![k] = NoJob]
            /\ workerPc' = [workerPc EXCEPT ![k] = "range"]
            /\ UNCHANGED poolPanic
    /\ UNCHANGED <<jobs, jobsClosed, resultsClosed, wg, poolPc, nextWorker,
                   nextJob, completed, received, notPool>>

(* line 78: the deferred wg.Done() *)
WorkerDone(k) ==
    /\ workerPc[k] = "deferred"
    /\ wg' = wg - 1
    /\ workerPc' = [workerPc EXCEPT ![k] = "exited"]
    /\ UNCHANGED <<jobs, jobsClosed, results, resultsClosed, poolPc,
                   nextWorker, nextJob, completed, job, received, written,
                   poolPanic, notPool>>

PoolMain ==
    \/ StartWorker
    \/ SendJob
    \/ CloseJobs
    \/ WaitWorkers
    \/ CloseResults
    \/ CountResults

PoolWorker(k) ==
    \/ WorkerReceive(k)
    \/ WorkerSleep(k)
    \/ WorkerSend(k)
    \/ WorkerDone(k)

NextPool ==
    \/ PoolMain
    \/ \E k \in Workers : PoolWorker(k)

(* no breaker takes part: its variables rest at one constructed value *)
BreakerUnused == failureThreshold = MaxThreshold /\ timeout = MaxTimeout

InitPool == Init /\ BreakerUnused

(* the Go scheduler runs every goroutine that can take a step *)
PoolFairness == WF_vars(PoolMain) /\ \A k \in Workers : WF_vars(PoolWorker(k))

SpecPool == InitPool /\ [][NextPool]_vars /\ PoolFairness

(* ---------------------------------------------------------------------- *)
(* runFanOutFanInConcurrent, fanOutWorker and fanIn (lines 298-384 of the  *)
(* fan-out file). The channels are unbuffered: a send and the receive it   *)
(* meets are one step.                                                     *)
(* ---------------------------------------------------------------------- *)
notFan == <<breakerVars, poolVars, pipeVars, selVars>>

(* lines 310-314: go fanOutWorker(i+1, input, output) *)
FanStartWorker ==
    /\ fanPc = "workers"
    /\ IF fanI < numFanWorkers
       THEN /\ fanWorkerPc' = [fanWorkerPc EXCEPT ![fanI + 1] = "range"]
            /\ fanI' = fanI + 1
            /\ UNCHANGED fanPc
       ELSE /\ fanPc' = "sender"
            /\ UNCHANGED <<fanWorkerPc, fanI>>
    /\ UNCHANGED <<inputClosed, outputsClosed, mergedClosed, fanWg, fanInI,
                   senderPc, nextNum, num, result, forwarderPc, val, closerPc,
                   processed, squared, delivered, fanPanic, notFan>>

(* line 317: the goroutine that sends the input data starts *)
FanStartSender ==
    /\ fanPc = "sender"
    /\ senderPc' = "send"
    /\ fanPc' = "fanIn"
    /\ UNCHANGED <<inputClosed, outputsClosed, mergedClosed, fanWg, fanI,
                   fanInI, nextNum, fanWorkerPc, num, result, forwarderPc, val,
                   closerPc, processed, squared, delivered, fanPanic, notFan>>

(* lines 367-375: wg.Add(1); go func(ch) for the next input *)
FanInStartForwarder ==
    /\ fanPc = "fanIn"
    /\ IF fanInI < numFanWorkers
       THEN /\ fanWg' = fanWg + 1
            /\ forwarderPc' = [forwarderPc EXCEPT ![fanInI + 1] = "range"]
            /\ fanInI' = fanInI + 1
            /\ UNCHANGED fanPc
       ELSE /\ fanPc' = "closer"
            /\ UNCHANGED <<fanWg, forwarderPc, fanInI>>
    /\ UNCHANGED <<inputClosed, outputsClosed, mergedClosed, fanI, senderPc,
                   nextNum, fanWorkerPc, num, result, val, closerPc, processed,
                   squared, delivered, fanPanic, notFan>>

(* lines 378-383: the closing goroutine starts and fanIn returns *)
FanInStartCloser ==
    /\ fanPc = "closer"
    /\ closerPc' = "wait"
    /\ fanPc' = "range"
    /\ UNCHANGED <<inputClosed, outputsClosed, mergedClosed, fanWg, fanI,
                   fanInI, senderPc, nextNum, fanWorkerPc, num, result,
                   forwarderPc, val, processed, squared, delivered, fanPanic,
                   notFan>>

(* line 329: the range over results ends when the channel is closed *)
FanMainEnd ==
    /\ fanPc = "range"
    /\ mergedClosed
    /\ fanPc' = "done"
    /\ UNCHANGED <<inputClosed, outputsClosed, mergedClosed, fanWg, fanI,
                   fanInI, senderPc, nextNum, fanWorkerPc, num, result,
                   forwarderPc, val, closerPc, processed, squared, delivered,
                   fanPanic, notFan>>

(* line 320 meets line 352: input <- num is received by worker k *)
SendNumber(k) ==
    /\ senderPc = "send"
    /\ nextNum <= Len(numbers)
    /\ fanWorkerPc[k] = "range"
    /\ num' = [num EXCEPT ![k] = numbers[nextNum]]
    /\ nextNum' = nextNum + 1
    /\ fanWorkerPc' = [fanWorkerPc EXCEPT ![k] = "square"]
    /\ UNCHANGED <<inputClosed, outputsClosed, mergedClosed, fanWg, fanPc,
                   fanI, fanInI, senderPc, result, forwarderPc, val, closerPc,
                   processed, squared, delivered, fanPanic, notFan>>

(* line 318: the deferred close(input) after the last number *)
SenderClose ==
    /\ senderPc = "send"
    /\ nextNum > Len(numbers)
    /\ inputClosed' = TRUE
    /\ fanPanic' = (fanPanic \/ inputClosed)
    /\ senderPc' = "exited"
    /\ UNCHANGED <<outputsClosed, mergedClosed, fanWg, fanPc, fanI, fanInI,
                   nextNum, fanWorkerPc, num, result, forwarderPc, val,
                   closerPc, processed, squared, delivered, notFan>>

(* lines 354-357: the delay, then result := num * num *)
WorkerSquare(k) ==
    /\ fanWorkerPc[k] = "square"
    /\ result' = [result EXCEPT ![k] = num[k] * num[k]]
    /\ squared' = [squared EXCEPT ![num[k]] = @ + 1]
    /\ fanWorkerPc' = [fanWorkerPc EXCEPT ![k] = "output"]
    /\ UNCHANGED <<inputClosed, outputsClosed, mergedClosed, fanWg, fanPc,
                   fanI, fanInI, senderPc, nextNum, num, forwarderPc, val,
                   closerPc, processed, delivered, fanPanic, notFan>>

(* line 358 meets line 371: output <- result reaches forwarder k *)
WorkerOutput(k) ==
    /\ fanWorkerPc[k] = "output"
    /\ forwarderPc[k] = "range"
    /\ val' = [val EXCEPT ![k] = result[k]]
    /\ forwarderPc' = [forwarderPc EXCEPT ![k] = "forward"]
    /\ num' = [num EXCEPT ![k] = 0]
    /\ result' = [result EXCEPT ![k] = 0]
    /\ fanWorkerPc' = [fanWorkerPc EXCEPT ![k] = "range"]
    /\ UNCHANGED <<inputClosed, outputsClosed, mergedClosed, fanWg, fanPc,
                   fanI, fanInI, senderPc, nextNum, closerPc, processed,
                   squared, delivered, fanPanic, notFan>>

(* lines 351-352: input is closed, the deferred close(output) runs *)
WorkerClose(k) ==
    /\ fanWorkerPc[k] = "range"
    /\ inputClosed
    /\ outputsClosed' = [outputsClosed EXCEPT ![k] = TRUE]
    /\ fanPanic' = (fanPanic \/ outputsClosed[k])
    /\ fanWorkerPc' = [fanWorkerPc EXCEPT ![k] = "exited"]
    /\ UNCHANGED <<inputClosed, mergedClosed, fanWg, fanPc, fanI, fanInI,
                   senderPc, nextNum, num, result, forwarderPc, val, closerPc,
                   processed, squared, delivered, notFan>>

(* line 372 meets line 329: output <- val is received by the range over   *)
(* results; a panic when output is closed                                 *)
ForwardValue(k) ==
    /\ forwarderPc[k] = "forward"
    /\ IF mergedClosed
       THEN /\ fanPanic' = TRUE
            /\ forwarderPc' = [forwarderPc EXCEPT ![k] = "panicked"]
            /\ UNCHANGED <<val, processed, delivered>>
       ELSE /\ fanPc = "range"
            /\ processed' = processed + 1
            /\ delivered' = [delivered EXCEPT ![val[k]] = @ + 1]
            /\ val' = [val EXCEPT ![k] = 0]
            /\ forwarderPc' = [forwarderPc EXCEPT ![k] = "range"]
            /\ UNCHANGED fanPanic
    /\ UNCHANGED <<inputClosed, outputsClosed, mergedClosed, fanWg, fanPc,
                   fanI, fanInI, senderPc, nextNum, fanWorkerPc, num, result,
                   closerPc, squared, notFan>>

(* lines 370-371: ch is closed, the deferred wg.Done() runs *)
ForwarderDone(k) ==
    /\ forwarderPc[k] = "range"
    /\ outputsClosed[k]
    /\ fanWg' = fanWg - 1
    /\ forwarderPc' = [forwarderPc EXCEPT ![k] = "exited"]
    /\ UNCHANGED <<inputClosed, outputsClosed, mergedClosed, fanPc, fanI,
                   fanInI, senderPc, nextNum, fanWorkerPc, num, result, val,
                   closerPc, processed, squared, delivered, fanPanic, notFan>>

CloserWait_Skipped ==
    /\ closerPc = "wait"
    /\ closerPc' = "close"
    /\ UNCHANGED <<inputClosed, outputsClosed, mergedClosed, fanWg, fanPc,
                   fanI, fanInI, senderPc, nextNum, fanWorkerPc, num, result,
                   forwarderPc, val, processed, squared, delivered, fanPanic,
                   notFan>>

(* line 379: wg.Wait() returns when the counter is zero *)
CloserWait ==
    /\ closerPc = "wait"
    /\ fanWg = 0
    /\ closerPc' = "close"
    /\ UNCHANGED <<inputClosed, outputsClosed, mergedClosed, fanWg, fanPc,
                   fanI, fanInI, senderPc, nextNum, fanWorkerPc, num, result,
                   forwarderPc, val, processed, squared, delivered, fanPanic,
                   notFan>>

(* line 380: close(output) *)
CloserClose ==
    /\ closerPc = "close"
    /\ mergedClosed' = TRUE
    /\ fanPanic' = (fanPanic \/ mergedClosed)
    /\ closerPc' = "exited"
    /\ UNCHANGED <<inputClosed, outputsClosed, fanWg, fanPc, fanI, fanInI,
                   senderPc, nextNum, fanWorkerPc, num, result, forwarderPc,
                   val, processed, squared, delivered, notFan>>

NextFan ==
    \/ FanStartWorker
    \/ FanStartSender
    \/ FanInStartForwarder
    \/ FanInStartCloser
    \/ FanMainEnd
    \/ SenderClose
    \/ CloserWait
    \/ CloserClose
    \/ \E k \in FanWorkers : SendNumber(k)
    \/ \E k \in FanWorkers : WorkerSquare(k)
    \/ \E k \in FanWorkers : WorkerOutput(k)
    \/ \E k \in FanWorkers : WorkerClose(k)
    \/ \E k \in FanWorkers : ForwardValue(k)
    \/ \E k \in FanWorkers : ForwarderDone(k)

InitFan == Init /\ BreakerUnused

(* the Go scheduler runs some goroutine as long as one can take a step *)
FanFairness == WF_vars(NextFan)

SpecFan == InitFan /\ [][NextFan]_vars /\ FanFairness

(* ---------------------------------------------------------------------- *)
(* runPipelineConcurrent, generator, cleanStage, transformStage and        *)
(* analyzeStage (lines 146-265 of the pipeline file). The channels are     *)
(* unbuffered: a send and the receive it meets are one step.               *)
(* ---------------------------------------------------------------------- *)
notPipe == <<breakerVars, poolVars, fanVars, selVars>>

(* lines 228-229: TrimSpace and ReplaceAll *)
cleanStage(x) == [x EXCEPT !.ops = Append(@, "clean")]

(* line 244: the prefix and ToLower *)
transformStage(x) == [x EXCEPT !.ops = Append(@, "transform")]

(* lines 259-260: the word count and the length are appended *)
analyzeStage(x) == [x EXCEPT !.ops = Append(@, "analyze")]

StageWork(i, x) ==
    CASE i = 1 -> cleanStage(x)
      [] i = 2 -> transformStage(x)
      [] i = 3 -> analyzeStage(x)

(* lines 161-167: generator, cleanStage, transformStage and analyzeStage    *)
(* each start their goroutine and return out                                *)
StartStage ==
    /\ pipePc = "build"
    /\ IF stagesStarted <= numStages
       THEN /\ stagePc' = [stagePc EXCEPT ![stagesStarted] =
                              IF stagesStarted = 0 THEN "send" ELSE "range"]
            /\ stagesStarted' = stagesStarted + 1
            /\ UNCHANGED pipePc
       ELSE /\ pipePc' = "range"
            /\ UNCHANGED <<stagePc, stagesStarted>>
    /\ UNCHANGED <<data, outClosed, nextItem, passed, collected, pipeProcessed,
                   notPipe>>

(* line 214 meets line 224: out <- item is received by cleanStage *)
GeneratorSend ==
    /\ stagePc[0] = "send"
    /\ nextItem <= Len(rawData)
    /\ stagePc[1] = "range"
    /\ data' = [data EXCEPT ![1] = rawData[nextItem]]
    /\ nextItem' = nextItem + 1
    /\ passed' = [passed EXCEPT ![0] = @ + 1]
    /\ stagePc' = [stagePc EXCEPT ![1] = "work"]
    /\ UNCHANGED <<pipePc, stagesStarted, outClosed, collected, pipeProcessed,
                   notPipe>>

(* line 212: the deferred close(out) after the last item *)
GeneratorClose ==
    /\ stagePc[0] = "send"
    /\ nextItem > Len(rawData)
    /\ outClosed' = [outClosed EXCEPT ![0] = TRUE]
    /\ stagePc' = [stagePc EXCEPT ![0] = "exited"]
    /\ UNCHANGED <<pipePc, stagesStarted, data, nextItem, passed, collected,
                   pipeProcessed, notPipe>>

(* lines 226-229, 242-244, 257-260: the delay and the stage's work *)
StageProcess(i) ==
    /\ stagePc[i] = "work"
    /\ data' = [data EXCEPT ![i] = StageWork(i, data[i])]
    /\ stagePc' = [stagePc EXCEPT ![i] = "out"]
    /\ UNCHANGED <<pipePc, stagesStarted, outClosed, nextItem, passed,
                   collected, pipeProcessed, notPipe>>

(* lines 230, 245 meet lines 240, 255: out <- value is received by the next *)
(* stage                                                                    *)
StagePass(i) ==
    /\ i < numStages
    /\ stagePc[i] = "out"
    /\ stagePc[i + 1] = "range"
    /\ data' = [data EXCEPT ![i + 1] = data[i], ![i] = NoItem]
    /\ passed' = [passed EXCEPT ![i] = @ + 1]
    /\ stagePc' = [stagePc EXCEPT ![i] = "range", ![i + 1] = "work"]
    /\ UNCHANGED <<pipePc, stagesStarted, outClosed, nextItem, collected,
                   pipeProcessed, notPipe>>

(* line 261 meets line 171: out <- result is received by the range over     *)
(* analyzed                                                                 *)
Deliver ==
    /\ stagePc[numStages] = "out"
    /\ pipePc = "range"
    /\ collected' = Append(collected, data[numStages])
    /\ pipeProcessed' = pipeProcessed + 1
    /\ data' = [data EXCEPT ![numStages] = NoItem]
    /\ passed' = [passed EXCEPT ![numStages] = @ + 1]
    /\ stagePc' = [stagePc EXCEPT ![numStages] = "range"]
    /\ UNCHANGED <<pipePc, stagesStarted, outClosed, nextItem, notPipe>>

StageClose_Eager(i) ==
    /\ stagePc[i] = "range"
    /\ outClosed' = [outClosed EXCEPT ![i] = TRUE]
    /\ stagePc' = [stagePc EXCEPT ![i] = "exited"]
    /\ UNCHANGED <<pipePc, stagesStarted, data, nextItem, passed, collected,
                   pipeProcessed, notPipe>>

(* lines 223-224, 239-240, 254-255: input is closed, the deferred           *)
(* close(out) runs                                                          *)
StageClose(i) ==
    /\ stagePc[i] = "range"
    /\ outClosed[i - 1]
    /\ outClosed' = [outClosed EXCEPT ![i] = TRUE]
    /\ stagePc' = [stagePc EXCEPT ![i] = "exited"]
    /\ UNCHANGED <<pipePc, stagesStarted, data, nextItem, passed, collected,
                   pipeProcessed, notPipe>>

(* line 171: the range over analyzed ends when the channel is closed *)
PipeMainEnd ==
    /\ pipePc = "range"
    /\ outClosed[numStages]
    /\ pipePc' = "done"
    /\ UNCHANGED <<stagesStarted, stagePc, data, outClosed, nextItem, passed,
                   collected, pipeProcessed, notPipe>>

NextPipe ==
    \/ StartStage
    \/ GeneratorSend
    \/ GeneratorClose
    \/ \E i \in Stages : StageProcess(i)
    \/ \E i \in Stages : StagePass(i)
    \/ Deliver
    \/ \E i \in Stages : StageClose(i)
    \/ PipeMainEnd

InitPipe == Init /\ BreakerUnused

(* the Go scheduler runs some goroutine as long as one can take a step *)
PipeFairness == WF_vars(NextPipe)

SpecPipe == InitPipe /\ [][NextPipe]_vars /\ PipeFairness

(* ---------------------------------------------------------------------- *)
(* runSelectTimeoutConcurrent and its health-check goroutines              *)
(* (patterns/select_timeout.go, lines 33-94)                               *)
(* ---------------------------------------------------------------------- *)
notSel == <<breakerVars, poolVars, fanVars, pipeVars>>

(* the loop of line 45 moves on to the next service, or ends *)
NextService == IF svc < numServices THEN "spawn" ELSE "done"

(* a tick of time passes for every running sleep and timer *)
TimePasses ==
    /\ \/ timer > 0
       \/ \E c \in Services : checkPc[c] = "sleep" /\ remaining[c] > 0
    /\ timer' = IF timer > 0 THEN timer - 1 ELSE timer
    /\ remaining' = [c \in Services |->
                       IF remaining[c] > 0 THEN remaining[c] - 1 ELSE 0]
    /\ UNCHANGED <<selPc, svc, healthyServices, failedServices,
                   timeoutServices, checkPc, isDown, resultCh, errorCh,
                   notSel>>

(* lines 47-64: both channels are made with capacity 1 and the health check *)
(* starts                                                                   *)
SpawnCheck ==
    /\ selPc = "spawn"
    /\ checkPc' = [checkPc EXCEPT ![svc] = "rand"]
    /\ selPc' = "after"
    /\ UNCHANGED <<svc, healthyServices, failedServices, timeoutServices,
                   timer, isDown, remaining, resultCh, errorCh, notSel>>

(* line 74: time.After(500 * time.Millisecond) is evaluated on entering the *)
(* select                                                                   *)
ArmTimer ==
    /\ selPc = "after"
    /\ timer' = TimeoutTicks
    /\ selPc' = "select"
    /\ UNCHANGED <<svc, healthyServices, failedServices, timeoutServices,
                   checkPc, isDown, remaining, resultCh, errorCh, notSel>>

(* lines 68-69: case <-resultCh *)
SelectResult ==
    /\ selPc = "select"
    /\ resultCh[svc] # <<>>
    /\ resultCh' = [resultCh EXCEPT ![svc] = Tail(@)]
    /\ healthyServices' = healthyServices + 1
    /\ timer' = NoTimer
    /\ selPc' = NextService
    /\ svc' = IF svc < numServices THEN svc + 1 ELSE svc
    /\ UNCHANGED <<failedServices, timeoutServices, checkPc, isDown, remaining,
                   errorCh, notSel>>

(* lines 71-72: case <-errorCh *)
SelectError ==
    /\ selPc = "select"
    /\ errorCh[svc] # <<>>
    /\ errorCh' = [errorCh EXCEPT ![svc] = Tail(@)]
    /\ failedServices' = failedServices + 1
    /\ timer' = NoTimer
    /\ selPc' = NextService
    /\ svc' = IF svc < numServices THEN svc + 1 ELSE svc
    /\ UNCHANGED <<healthyServices, timeoutServices, checkPc, isDown,
                   remaining, resultCh, notSel>>

(* lines 74-75: case <-time.After(...) *)
SelectTimeout ==
    /\ selPc = "select"
    /\ timer = 0
    /\ timeoutServices' = timeoutServices + 1
    /\ timer' = NoTimer
    /\ selPc' = NextService
    /\ svc' = IF svc < numServices THEN svc + 1 ELSE svc
    /\ UNCHANGED <<healthyServices, failedServices, checkPc, isDown, remaining,
                   resultCh, errorCh, notSel>>

(* lines 78-87: no case is ready, default; the inner select evaluates its   *)
(* own time.After                                                           *)
SelectDefault ==
    /\ selPc = "select"
    /\ resultCh[svc] = <<>>
    /\ errorCh[svc] = <<>>
    /\ timer # 0
    /\ timer' = TimeoutTicks
    /\ selPc' = "wait"
    /\ UNCHANGED <<svc, healthyServices, failedServices, timeoutServices,
                   checkPc, isDown, remaining, resultCh, errorCh, notSel>>

(* lines 81-82: case <-resultCh of the inner select *)
WaitResult ==
    /\ selPc = "wait"
    /\ resultCh[svc] # <<>>
    /\ resultCh' = [resultCh EXCEPT ![svc] = Tail(@)]
    /\ healthyServices' = healthyServices + 1
    /\ timer' = NoTimer
    /\ selPc' = NextService
    /\ svc' = IF svc < numServices THEN svc + 1 ELSE svc
    /\ UNCHANGED <<failedServices, timeoutServices, checkPc, isDown, remaining,
                   errorCh, notSel>>

(* lines 84-85: case <-errorCh of the inner select *)
WaitError ==
    /\ selPc = "wait"
    /\ errorCh[svc] # <<>>
    /\ errorCh' = [errorCh EXCEPT ![svc] = Tail(@)]
    /\ failedServices' = failedServices + 1
    /\ timer' = NoTimer
    /\ selPc' = NextService
    /\ svc' = IF svc < numServices THEN svc + 1 ELSE svc
    /\ UNCHANGED <<healthyServices, timeoutServices, checkPc, isDown,
                   remaining, resultCh, notSel>>

(* lines 87-88: case <-time.After(...) of the inner select *)
WaitTimeout ==
    /\ selPc = "wait"
    /\ timer = 0
    /\ timeoutServices' = timeoutServices + 1
    /\ timer' = NoTimer
    /\ selPc' = NextService
    /\ svc' = IF svc < numServices THEN svc + 1 ELSE svc
    /\ UNCHANGED <<healthyServices, failedServices, checkPc, isDown, remaining,
                   resultCh, errorCh, notSel>>

(* lines 53-57, 62: the response time and the outcome are drawn, the sleep  *)
(* starts                                                                   *)
CheckRand(c) ==
    /\ checkPc[c] = "rand"
    /\ \E r \in ResponseTicks : remaining' = [remaining EXCEPT ![c] = r]
    /\ \E b \in BOOLEAN : isDown' = [isDown EXCEPT ![c] = b]
    /\ checkPc' = [checkPc EXCEPT ![c] = "sleep"]
    /\ UNCHANGED <<selPc, svc, healthyServices, failedServices,
                   timeoutServices, timer, resultCh, errorCh, notSel>>

(* lines 57, 62: time.Sleep(responseTime) returns *)
CheckWake(c) ==
    /\ checkPc[c] = "sleep"
    /\ remaining[c] = 0
    /\ checkPc' = [checkPc EXCEPT ![c] = "send"]
    /\ UNCHANGED <<selPc, svc, healthyServices, failedServices,
                   timeoutServices, timer, isDown, remaining, resultCh,
                   errorCh, notSel>>

Capacity == 1

CheckSend_Unbuffered(c) ==
    /\ checkPc[c] = "send"
    /\ svc = c
    /\ selPc \in {"select", "wait"}
    /\ IF isDown[c]
       THEN /\ errorCh' = [errorCh EXCEPT ![c] = Append(@, "down")]
            /\ UNCHANGED resultCh
       ELSE /\ resultCh' = [resultCh EXCEPT ![c] = Append(@, "healthy")]
            /\ UNCHANGED errorCh
    /\ checkPc' = [checkPc EXCEPT ![c] = "exited"]
    /\ UNCHANGED <<selPc, svc, healthyServices, failedServices,
                   timeoutServices, timer, isDown, remaining, notSel>>

(* lines 58 and 63: the one send, which waits while the channel is full *)
CheckSend(c) ==
    /\ checkPc[c] = "send"
    /\ IF isDown[c]
       THEN /\ Len(errorCh[c]) < Capacity
            /\ errorCh' = [errorCh EXCEPT ![c] = Append(@, "down")]
            /\ UNCHANGED resultCh
       ELSE /\ Len(resultCh[c]) < Capacity
            /\ resultCh' = [resultCh EXCEPT ![c] = Append(@, "healthy")]
            /\ UNCHANGED errorCh
    /\ checkPc' = [checkPc EXCEPT ![c] = "exited"]
    /\ UNCHANGED <<selPc, svc, healthyServices, failedServices,
                   timeoutServices, timer, isDown, remaining, notSel>>

SelectMain ==
    \/ SpawnCheck
    \/ ArmTimer
    \/ SelectResult
    \/ SelectError
    \/ SelectTimeout
    \/ SelectDefault
    \/ WaitResult
    \/ WaitError
    \/ WaitTimeout

HealthCheck(c) ==
    \/ CheckRand(c)
    \/ CheckWake(c)
    \/ CheckSend(c)

NextSel ==
    \/ TimePasses
    \/ SelectMain
    \/ \E c \in Services : HealthCheck(c)

InitSel == Init /\ BreakerUnused

(* time advances and the goroutine of runSelectTimeoutConcurrent is run;   *)
(* nothing is assumed here about when a health check is run                *)
SelFairness == WF_vars(TimePasses) /\ WF_vars(SelectMain)

SpecSel == InitSel /\ [][NextSel]_vars /\ SelFairness

(* ---------------------------------------------------------------------- *)
(* Observations over the log                                               *)
(* ---------------------------------------------------------------------- *)
Last(l) == l[Len(l)]
Front(l) == SubSeq(l, 1, Len(l) - 1)
Kinds(l) == [i \in 1..Len(l) |-> l[i].kind]

IsClosedFail(e) == e.kind = "fail" /\ e.pre = CLOSED
IsProbeFail(e) == e.kind = "fail" /\ e.pre = HALF_OPEN
IsProbeOk(e) == e.kind = "ok" /\ e.pre = HALF_OPEN

RECURSIVE ClosedRun(_)
(* failures of the operation in CLOSED at the end of the log *)
ClosedRun(l) ==
    IF l = <<>> THEN 0
    ELSE IF IsClosedFail(Last(l)) THEN 1 + ClosedRun(Front(l))
    ELSE 0

ProbeInProgress == \E g \in Procs : probe[g] /\ pc[g] \in {"fn", "running"}
Returned(g) == pc[g] = "unlock"
ChecksNow(g) == pc[g] = "check" /\ pc'[g] # "check"
FnReturns(g) == pc[g] = "running" /\ pc'[g] # "running"

(* ---------------------------------------------------------------------- *)
(* C1: with threshold T >= 1 the breaker is OPEN exactly from the T-th     *)
(* consecutive failure in CLOSED: after fewer it is still CLOSED, the run  *)
(* never exceeds T, and after the T-th it is OPEN (until a probe starts).  *)
(* ---------------------------------------------------------------------- *)
C1_TripsExactlyAtThreshold ==
    failureThreshold >= 1 =>
        /\ (log = <<>> \/ Last(log).kind = "ok") => state = CLOSED
        /\ ClosedRun(log) <= failureThreshold
        /\ (ClosedRun(log) >= 1 /\ ClosedRun(log) < failureThreshold)
              => state = CLOSED
        /\ ClosedRun(log) = failureThreshold
              => (state = OPEN \/ (state = HALF_OPEN /\ ProbeInProgress))

C1_Witness ==
    /\ failureThreshold = 2
    /\ Kinds(log) = <<"fail", "ok", "fail", "fail">>
    /\ state = OPEN

(* ---------------------------------------------------------------------- *)
(* C2: a success in CLOSED sets failureCount to 0, so in CLOSED the count  *)
(* is the length of the current run of failures; with threshold 3 the      *)
(* calls failure, success, failure, failure leave CLOSED with count 2.     *)
(* ---------------------------------------------------------------------- *)
C2_SuccessResetsCount ==
    /\ (log # <<>> /\ Last(log).kind = "ok") => failureCount = 0
    /\ state = CLOSED => failureCount = ClosedRun(log)
    /\ (failureThreshold = 3 /\ Kinds(log) = <<"fail", "ok", "fail", "fail">>)
          => (state = CLOSED /\ failureCount = 2)

C2_Witness ==
    /\ failureThreshold = 3
    /\ Kinds(log) = <<"fail", "ok", "fail", "fail">>
    /\ state = CLOSED
    /\ failureCount = 2

(* ---------------------------------------------------------------------- *)
(* C3: a Call checked while OPEN with no more than the timeout elapsed     *)
(* since lastFailure gets the rejection error and never invokes the        *)
(* operation: the invocation counter is unchanged until that Call returns. *)
(* ---------------------------------------------------------------------- *)
C3_OpenRejectsWithoutInvoking ==
    [][\A g \in Procs :
         /\ (ChecksNow(g) /\ state = OPEN /\ now - lastFailure <= timeout)
              => /\ ret'[g] = ErrOpen
                 /\ pc'[g] = "unlock"
                 /\ fnCalls'[g] = 0
                 /\ invoked' = invoked
         /\ (Returned(g) /\ fnCalls[g] = 0) => invoked' = invoked]_vars

C3_Witness ==
    \E g \in Procs :
        /\ Returned(g)
        /\ ret[g] = ErrOpen
        /\ fnCalls[g] = 0
        /\ state = OPEN
        /\ now - lastFailure = timeout
        /\ invoked = failureThreshold
        /\ failureThreshold >= 2

(* ---------------------------------------------------------------------- *)
(* C4: the Call checked at an OPEN breaker with more than the timeout      *)
(* elapsed since lastFailure moves it to HALF_OPEN with failureCount 0,    *)
(* invokes the operation exactly once, and the result of that one          *)
(* invocation decides the next state: CLOSED on nil, OPEN on an error.     *)
(* ---------------------------------------------------------------------- *)
C4_ExpiredOpenAdmitsOneProbe ==
    [][\A g \in Procs :
         /\ (ChecksNow(g) /\ state = OPEN /\ now - lastFailure > timeout)
              => /\ state' = HALF_OPEN
                 /\ failureCount' = 0
                 /\ probe'[g]
                 /\ pc'[g] = "fn"
                 /\ invoked' = invoked
         /\ (probe[g] /\ pc[g] = "fn" /\ pc'[g] # "fn")
              => /\ pc'[g] = "running"
                 /\ invoked' = invoked + 1
                 /\ fnCalls'[g] = 1
         /\ (probe[g] /\ FnReturns(g))
              => /\ pc'[g] = "unlock"
                 /\ invoked' = invoked
                 /\ fnCalls'[g] = 1
                 /\ state' = IF fnResult'[g] = Nil THEN CLOSED ELSE OPEN
         /\ (probe[g] /\ Returned(g))
              => /\ invoked' = invoked
                 /\ fnCalls[g] = 1]_vars

C4_Witness ==
    \E g \in Procs :
        /\ probe[g]
        /\ Returned(g)
        /\ fnCalls[g] = 1
        /\ ret[g] = Nil
        /\ state = CLOSED
        /\ failureThreshold >= 2

RECURSIVE LastOperation(_)
(* the latest entry of the log that is not a rejection *)
LastOperation(l) ==
    IF l = <<>> THEN [kind |-> "none", pre |-> CLOSED]
    ELSE IF Last(l).kind = "rej" THEN LastOperation(Front(l))
    ELSE Last(l)

(* ---------------------------------------------------------------------- *)
(* C5: a failing probe puts the breaker in OPEN whatever the threshold     *)
(* and sets lastFailure to the time of the failure; from then on a Call    *)
(* is rejected, leaving the breaker untouched, while no more than the      *)
(* timeout has elapsed since that lastFailure, and is admitted as the next *)
(* probe as soon as more has elapsed: the window is re-armed at full       *)
(* length and does not grow.                                               *)
(* ---------------------------------------------------------------------- *)
C5_FailedProbeRearmsWindow ==
    [][\A g \in Procs :
         /\ (FnReturns(g) /\ state = HALF_OPEN /\ fnResult'[g] # Nil)
              => /\ state' = OPEN
                 /\ lastFailure' = now
                 /\ now' = now
         /\ (ChecksNow(g) /\ state = OPEN /\ IsProbeFail(LastOperation(log)))
              => IF now - lastFailure <= timeout
                 THEN /\ ret'[g] = ErrOpen
                      /\ pc'[g] = "unlock"
                      /\ invoked' = invoked
                      /\ UNCHANGED <<state, failureCount, lastFailure>>
                 ELSE /\ state' = HALF_OPEN
                      /\ pc'[g] = "fn"]_vars

C5_Witness ==
    /\ failureThreshold >= 2
    /\ state = OPEN
    /\ failureCount = 1
    /\ Len(log) >= 2
    /\ IsProbeFail(log[Len(log) - 1])
    /\ Last(log).kind = "rej"
    /\ now - lastFailure = timeout

(* the run of k CLOSED failures that follows log entry i *)
C6_RunAfterProbe(i) ==
    LET k == Len(log) - i
    IN  /\ k <= failureThreshold
        /\ k < failureThreshold => state = CLOSED
        /\ k = failureThreshold
             => (state = OPEN \/ (state = HALF_OPEN /\ ProbeInProgress))

(* ---------------------------------------------------------------------- *)
(* C6: a succeeding probe ends in CLOSED with failureCount 0 and Call      *)
(* returns nil; the failures that follow it trip the breaker only when     *)
(* their run reaches the full threshold again.                             *)
(* ---------------------------------------------------------------------- *)
C6_SucceededProbeCloses ==
    /\ [][\A g \in Procs :
            (FnReturns(g) /\ state = HALF_OPEN /\ fnResult'[g] = Nil)
              => /\ state' = CLOSED
                 /\ failureCount' = 0
                 /\ ret'[g] = Nil]_vars
    /\ [](failureThreshold >= 1 =>
            \A i \in 1..Len(log) :
               (IsProbeOk(log[i]) /\ \A j \in (i+1)..Len(log) : IsClosedFail(log[j]))
                 => C6_RunAfterProbe(i))

C6_Witness ==
    /\ failureThreshold = 2
    /\ Kinds(log) = <<"fail", "fail", "ok", "fail">>
    /\ IsProbeOk(log[3])
    /\ state = CLOSED
    /\ failureCount = 1

InCall(g) == pc[g] \in {"check", "fn", "running", "unlock"}
HalfOpenEntries == {i \in 1..Len(log) : log[i].pre = HALF_OPEN}

(* ---------------------------------------------------------------------- *)
(* C7: for every transition into HALF_OPEN exactly one Call runs the       *)
(* operation as the probe; while the breaker is HALF_OPEN every other Call *)
(* is still waiting for the lock, so it is checked only against the state  *)
(* the probe left, and two executions of the operation never overlap.      *)
(* ---------------------------------------------------------------------- *)
C7_OneProbePerWindow ==
    /\ Cardinality({g \in Procs : pc[g] = "running"}) <= 1
    /\ Cardinality({g \in Procs : probe[g]}) <= 1
    /\ state = HALF_OPEN
         => /\ Cardinality({g \in Procs : probe[g] /\ pc[g] \in {"fn", "running"}}) = 1
            /\ \A h \in Procs : InCall(h) => probe[h]
    /\ \A g \in Procs : pc[g] = "check" => state \in {CLOSED, OPEN}
    /\ window = Cardinality(HalfOpenEntries) + (IF state = HALF_OPEN THEN 1 ELSE 0)

C7_Witness ==
    \E g, h \in Procs :
        /\ g # h
        /\ arrival[g].expired
        /\ arrival[h].expired
        /\ arrival[g].win = arrival[h].win
        /\ probe[g]
        /\ pc[g] = "running"
        /\ pc[h] = "lock"
        /\ state = HALF_OPEN

(* a Call issued on an expired OPEN window that another Call took *)
LostRace(h) == arrival[h].expired /\ window > arrival[h].win /\ ~probe[h]

(* ---------------------------------------------------------------------- *)
(* C8 as stated: every caller that raced on an expired OPEN window and did *)
(* not make the transition returns the rejection error without invoking    *)
(* the operation, whatever the probe returned.                             *)
(* ---------------------------------------------------------------------- *)
C8_LosersAlwaysRejected ==
    failureThreshold >= 1 =>
        \A h \in Procs :
            (LostRace(h) /\ Returned(h)) => (ret[h] = ErrOpen /\ fnCalls[h] = 0)

(* ---------------------------------------------------------------------- *)
(* C8 amended: only the Call that makes the transition runs the operation  *)
(* while the breaker is HALF_OPEN; a caller that lost the race is checked  *)
(* after the probe has finished and is rejected exactly when it then finds *)
(* the breaker OPEN with no more than the timeout elapsed since            *)
(* lastFailure; otherwise (as after a succeeded probe, which leaves        *)
(* CLOSED) it invokes the operation itself.                                *)
(* ---------------------------------------------------------------------- *)
C8_LosersSeePostProbeState ==
    /\ [](\A h \in Procs :
            (state = HALF_OPEN /\ pc[h] \in {"fn", "running"}) => probe[h])
    /\ [][\A h \in Procs :
            (ChecksNow(h) /\ LostRace(h))
              => /\ state \in {CLOSED, OPEN}
                 /\ IF state = OPEN /\ now - lastFailure <= timeout
                    THEN /\ ret'[h] = ErrOpen
                         /\ pc'[h] = "unlock"
                         /\ invoked' = invoked
                    ELSE /\ pc'[h] = "fn"
                         /\ ret'[h] = NoResult
                 /\ state = CLOSED => (state' = CLOSED /\ ~probe'[h])]_vars

C8_Witness ==
    \E h \in Procs :
        /\ LostRace(h)
        /\ pc[h] = "running"
        /\ fnCalls[h] = 1
        /\ state = CLOSED
        /\ IsProbeOk(Last(log))

(* ---------------------------------------------------------------------- *)
(* C9: the caller can tell a rejection from a failure of the operation:    *)
(* a Call returns the rejection error exactly when it did not invoke the   *)
(* operation.                                                              *)
(* ---------------------------------------------------------------------- *)
C9_RejectionDistinguishable ==
    failureThreshold >= 1 =>
        \A g \in Procs :
            Returned(g) => (ret[g] = ErrOpen <=> fnCalls[g] = 0)

(* ---------------------------------------------------------------------- *)
(* C10: a Call that invoked the operation returns the operation's own      *)
(* result, error value or nil, in CLOSED and HALF_OPEN alike, and the      *)
(* transition it takes is a function of the prior state, the count and     *)
(* whether that result is nil.                                             *)
(* ---------------------------------------------------------------------- *)
C10_ResultPassedThrough ==
    /\ [](\A g \in Procs :
            (Returned(g) /\ fnCalls[g] >= 1)
              => (ret[g] = fnResult[g] /\ fnResult[g] \in OpErrors \cup {Nil}))
    /\ [][\A g \in Procs :
            FnReturns(g)
              => /\ ret'[g] = fnResult'[g]
                 /\ IF fnResult'[g] = Nil
                    THEN /\ state' = (IF state = HALF_OPEN THEN CLOSED ELSE state)
                         /\ failureCount' = 0
                    ELSE /\ state' = (IF state = HALF_OPEN
                                         \/ failureCount + 1 >= failureThreshold
                                      THEN OPEN ELSE state)
                         /\ failureCount' = failureCount + 1]_vars

C10_Witness ==
    \E g \in Procs :
        /\ Returned(g)
        /\ probe[g]
        /\ fnResult[g] = ErrOpen
        /\ ret[g] = ErrOpen
        /\ state = OPEN
        /\ failureThreshold >= 2

(* the scheduler runs every goroutine that can take a step of Call or      *)
(* GetState; whether the wrapped operation returns is up to the operation  *)
SchedulerFairness ==
    \A g \in Procs :
        /\ WF_vars(CallLock(g))
        /\ WF_vars(CallCheck(g))
        /\ WF_vars(CallFn(g))
        /\ WF_vars(CallUnlock(g))
        /\ WF_vars(GetStateRLock(g))
        /\ WF_vars(GetStateRUnlock(g))

(* Call and GetState under a fair scheduler *)
SpecGFair == SpecG /\ SchedulerFairness

(* ---------------------------------------------------------------------- *)
(* C11: a breaker whose failureThreshold is 0 or negative is refused at    *)
(* construction, so no Call ever runs on a breaker with threshold <= 0.    *)
(* ---------------------------------------------------------------------- *)
C11_NonPositiveThresholdRefused ==
    \A g \in Procs : pc[g] # "idle" => failureThreshold >= 1

(* ---------------------------------------------------------------------- *)
(* C12: every GetState invocation eventually returns a state, also when it *)
(* is issued while a Call on the same breaker is executing its operation.  *)
(* ---------------------------------------------------------------------- *)
C12_GetStateReturns ==
    \A g \in Procs : (pc[g] = "rlock") ~> (pc[g] = "runlock")

Edges == {<<CLOSED, OPEN>>, <<OPEN, HALF_OPEN>>,
          <<HALF_OPEN, CLOSED>>, <<HALF_OPEN, OPEN>>}

(* ---------------------------------------------------------------------- *)
(* C13: a new breaker is CLOSED with failureCount 0, the state is always   *)
(* one of the three states, and every change of it follows one of the four *)
(* edges CLOSED -> OPEN, OPEN -> HALF_OPEN, HALF_OPEN -> CLOSED and        *)
(* HALF_OPEN -> OPEN.                                                      *)
(* ---------------------------------------------------------------------- *)
C13_OnlyFourEdges ==
    /\ (state = CLOSED /\ failureCount = 0)
    /\ [](state \in CircuitStates)
    /\ [][state' # state => <<state, state'>> \in Edges]_vars

C13_Witness ==
    /\ state = CLOSED
    /\ \E i, j \in 1..Len(log) :
          /\ i < j
          /\ IsProbeFail(log[i])
          /\ IsProbeOk(log[j])

(* ---------------------------------------------------------------------- *)
(* C14: a rejected Call leaves state, failureCount and lastFailure         *)
(* unchanged from its check to its return; lastFailure changes only when   *)
(* an invoked operation fails, so a Call that follows rejections is        *)
(* admitted as soon as more than the timeout has elapsed since that        *)
(* failure.                                                                *)
(* ---------------------------------------------------------------------- *)
C14_RejectionChangesNothing ==
    [][/\ \A g \in Procs :
            /\ (ChecksNow(g) /\ pc'[g] = "unlock")
                 => UNCHANGED <<state, failureCount, lastFailure>>
            /\ (Returned(g) /\ fnCalls[g] = 0)
                 => UNCHANGED <<state, failureCount, lastFailure>>
            /\ (ChecksNow(g) /\ state = OPEN /\ log # <<>>
                   /\ Last(log).kind = "rej" /\ now - lastFailure > timeout)
                 => (state' = HALF_OPEN /\ pc'[g] = "fn")
       /\ lastFailure' # lastFailure
            => \E g \in Procs :
                 FnReturns(g) /\ fnResult'[g] \in OpErrors /\ lastFailure' = now]_vars

C14_Witness ==
    /\ state = HALF_OPEN
    /\ log # <<>>
    /\ Last(log).kind = "rej"
    /\ now - lastFailure = timeout + 1
    /\ ProbeInProgress

(* ---------------------------------------------------------------------- *)
(* C15: a Call holds the exclusive lock from its check until its deferred  *)
(* unlock, past the operation and the recorded transition: at most one     *)
(* goroutine is inside that section, no GetState holds the read lock       *)
(* meanwhile, and no two executions of the operation overlap.              *)
(* ---------------------------------------------------------------------- *)
C15_CallsSerialized ==
    /\ Cardinality({g \in Procs : InCall(g)}) <= 1
    /\ \A g \in Procs : InCall(g) => (mutex = g /\ readers = {})
    /\ \A g \in Procs : pc[g] = "runlock" <=> g \in readers
    /\ readers # {} => mutex = 0
    /\ mutex # 0 => InCall(mutex)

C15_Witness ==
    \E g, h \in Procs :
        /\ g # h
        /\ pc[g] = "running"
        /\ pc[h] = "rlock"
        /\ mutex = g
        /\ state = CLOSED
        /\ failureCount = 1

GetStateStep(g) ==
    \/ pc[g] = "idle" /\ pc'[g] = "rlock"
    \/ pc[g] = "rlock" /\ pc'[g] = "runlock"
    \/ pc[g] = "runlock" /\ pc'[g] = "idle"

(* ---------------------------------------------------------------------- *)
(* C16: state, failureCount and lastFailure change only in a step of a     *)
(* Call that holds the lock: the passage of time and the steps of GetState *)
(* leave them unchanged, so GetState on a breaker whose timeout has        *)
(* expired still returns OPEN.                                             *)
(* ---------------------------------------------------------------------- *)
C16_OnlyCallChangesBreaker ==
    [][/\ now' # now => UNCHANGED <<state, failureCount, lastFailure>>
       /\ \A g \in Procs :
            GetStateStep(g) => UNCHANGED <<state, failureCount, lastFailure>>
       /\ <<state, failureCount, lastFailure>>' # <<state, failureCount, lastFailure>>
            => \E g \in Procs : InCall(g) /\ mutex = g /\ pc'[g] # pc[g]
       /\ \A g \in Procs :
            (pc[g] = "rlock" /\ pc'[g] = "runlock")
              => /\ got'[g] = state
                 /\ (state = OPEN /\ now - lastFailure > timeout)
                      => got'[g] = OPEN]_vars

C16_Witness ==
    \E g \in Procs :
        /\ pc[g] = "runlock"
        /\ got[g] = OPEN
        /\ state = OPEN
        /\ now - lastFailure > timeout

(* ---------------------------------------------------------------------- *)
(* C17: the test that admits a probe is strict: a Call checked in OPEN     *)
(* when exactly the timeout has elapsed since lastFailure is rejected, one *)
(* checked a tick later becomes the probe, and the breaker is never        *)
(* HALF_OPEN unless more than the timeout has elapsed since lastFailure.   *)
(* ---------------------------------------------------------------------- *)
C17_ProbeTestIsStrict ==
    /\ [](state = HALF_OPEN => (lastFailure # ZeroTime /\ now - lastFailure > timeout))
    /\ [][\A g \in Procs :
            (ChecksNow(g) /\ state = OPEN)
              => /\ now - lastFailure = timeout
                      => (ret'[g] = ErrOpen /\ state' = OPEN /\ ~probe'[g])
                 /\ now - lastFailure = timeout + 1
                      => (ret'[g] = NoResult /\ state' = HALF_OPEN /\ probe'[g])
                 /\ state' = HALF_OPEN => now - lastFailure > timeout]_vars

C17_Witness ==
    \E g \in Procs :
        /\ Returned(g)
        /\ fnCalls[g] = 0
        /\ ret[g] = ErrOpen
        /\ timeout = 2
        /\ now - lastFailure = 2
        /\ state = OPEN

(* ---------------------------------------------------------------------- *)
(* C19: HALF_OPEN exists only inside a Call: whenever the lock is free the *)
(* state is CLOSED or OPEN, and GetState never returns HALF_OPEN.          *)
(* ---------------------------------------------------------------------- *)
C19_HalfOpenNeverObserved ==
    /\ mutex = 0 => state \in {CLOSED, OPEN}
    /\ \A g \in Procs : pc[g] = "runlock" => got[g] \in {CLOSED, OPEN}
    /\ state = HALF_OPEN => readers = {}

C19_Witness ==
    \E g, h \in Procs :
        /\ g # h
        /\ probe[g]
        /\ pc[g] = "running"
        /\ state = HALF_OPEN
        /\ pc[h] = "rlock"

(* ---------------------------------------------------------------------- *)
(* C20: with threshold T >= 1, whenever no Call holds the lock:            *)
(* 0 <= failureCount <= T; in CLOSED failureCount < T; in OPEN             *)
(* failureCount is T or 1 and lastFailure is the time of a recorded        *)
(* failure, never the zero time.                                           *)
(* ---------------------------------------------------------------------- *)
C20_CountAndTimeBetweenCalls ==
    (failureThreshold >= 1 /\ mutex = 0) =>
        /\ failureCount >= 0
        /\ failureCount <= failureThreshold
        /\ state = CLOSED => failureCount < failureThreshold
        /\ state = OPEN
             => /\ failureCount \in {failureThreshold, 1}
                /\ lastFailure # ZeroTime
                /\ lastFailure >= 0
                /\ lastFailure <= now

C20_Witness ==
    /\ failureThreshold = 3
    /\ mutex = 0
    /\ state = OPEN
    /\ failureCount = 1

(* ---------------------------------------------------------------------- *)
(* C18: no state is terminal: when Calls keep arriving, time keeps         *)
(* advancing, every operation returns and the operation eventually         *)
(* succeeds, a breaker that is OPEN or HALF_OPEN is eventually CLOSED      *)
(* again.                                                                  *)
(* ---------------------------------------------------------------------- *)
C18_EventuallyClosedAgain == (state # CLOSED) ~> (state = CLOSED)

C18_Witness ==
    \E g \in Procs :
        /\ Returned(g)
        /\ probe[g]
        /\ ret[g] = Nil
        /\ state = CLOSED
        /\ now = MaxTime
        /\ failureThreshold >= 2

(* ---------------------------------------------------------------------- *)
(* C21: under every fair scheduling runWorkerPoolConcurrent terminates:    *)
(* each job is received once and written to results once, no worker       *)
(* waits on the results send, results is closed only after every worker    *)
(* has called Done, nothing is sent on a closed channel, and the final     *)
(* completed count is numJobs.                                             *)
(* ---------------------------------------------------------------------- *)
PoolFinished ==
    /\ poolPc = "done"
    /\ completed = numJobs
    /\ \A k \in Workers : workerPc[k] = "exited"

PoolSafe ==
    /\ ~poolPanic
    /\ \A b \in Jobs : received[b] <= 1 /\ written[b] <= received[b]
    /\ \A k \in Workers : workerPc[k] = "result" => Len(results) < numJobs
    /\ resultsClosed => wg = 0 /\ \A k \in Workers : workerPc[k] = "exited"
    /\ wg = Cardinality({k \in Workers :
                            workerPc[k] \notin {"unborn", "exited"}})
    /\ poolPc = "done" =>
          /\ completed = numJobs
          /\ \A b \in Jobs : received[b] = 1 /\ written[b] = 1

C21_WorkerPoolTerminates == []PoolSafe /\ <>[]PoolFinished

C21_Witness ==
    /\ PoolFinished
    /\ resultsClosed
    /\ results = <<>>
    /\ \A b \in Jobs : written[b] = 1

(* ---------------------------------------------------------------------- *)
(* C22: fanIn closes its output only after every worker output is closed   *)
(* and drained; nothing is sent on the output after the close; every       *)
(* number is squared by one worker and its square delivered once; all      *)
(* goroutines terminate and the consumer ends with processed equal to the  *)
(* number of inputs.                                                       *)
(* ---------------------------------------------------------------------- *)
FanFinished ==
    /\ fanPc = "done"
    /\ processed = Len(numbers)
    /\ senderPc = "exited"
    /\ closerPc = "exited"
    /\ \A k \in FanWorkers :
          fanWorkerPc[k] = "exited" /\ forwarderPc[k] = "exited"

FanSafe ==
    /\ ~fanPanic
    /\ mergedClosed =>
          \A k \in FanWorkers : outputsClosed[k] /\ forwarderPc[k] = "exited"
    /\ \A n \in Numbers : squared[n] <= 1 /\ delivered[n * n] <= squared[n]
    /\ processed <= Len(numbers)
    /\ fanPc = "done" =>
          /\ processed = Len(numbers)
          /\ \A n \in Numbers : squared[n] = 1 /\ delivered[n * n] = 1

C22_FanInClosesLast == []FanSafe /\ <>[]FanFinished

C22_Witness ==
    /\ FanFinished
    /\ mergedClosed
    /\ \A n \in Numbers : delivered[n * n] = 1

(* ---------------------------------------------------------------------- *)
(* C23: the three-stage pipeline delivers every input item exactly once    *)
(* and in the input order, having passed the three stages; each stage      *)
(* closes its output only after its input is closed and drained; and the   *)
(* pipeline always terminates with all four goroutines finished and        *)
(* processed equal to the number of inputs.                                *)
(* ---------------------------------------------------------------------- *)
Processed(x) == analyzeStage(transformStage(cleanStage(x)))

PipeFinished ==
    /\ pipePc = "done"
    /\ pipeProcessed = Len(rawData)
    /\ \A i \in Goroutines : stagePc[i] = "exited"

PipeSafe ==
    /\ Len(collected) <= Len(rawData)
    /\ pipeProcessed = Len(collected)
    /\ \A n \in 1..Len(collected) : collected[n] = Processed(rawData[n])
    /\ \A i \in Goroutines :
          outClosed[i] => /\ passed[i] = Len(rawData)
                          /\ data[i] = NoItem
                          /\ i > 0 => outClosed[i - 1]
    /\ pipePc = "done" => Len(collected) = Len(rawData)

C23_PipelineDeliversInOrder == []PipeSafe /\ <>[]PipeFinished

C23_Witness ==
    /\ PipeFinished
    /\ collected = [n \in 1..numItems |-> Processed(rawData[n])]

(* ---------------------------------------------------------------------- *)
(* C24: every service is counted in exactly one of healthy, failed or      *)
(* timeout, so the counters sum to the number of services at the end; the  *)
(* main loop gets past every service whatever the health checks do,        *)
(* because the timeout branch becomes ready; and the one send of a health  *)
(* check always finds room in its channel of capacity 1, so every health   *)
(* check that is run terminates, also one whose result comes after the     *)
(* timeout was taken.                                                      *)
(* ---------------------------------------------------------------------- *)
Counted == healthyServices + failedServices + timeoutServices

SelSafe ==
    /\ Counted = IF selPc = "done" THEN numServices ELSE svc - 1
    /\ \A c \in Services :
          /\ Len(resultCh[c]) + Len(errorCh[c]) <= 1
          /\ checkPc[c] = "send" => resultCh[c] = <<>> /\ errorCh[c] = <<>>

ChecksAreRun == \A c \in Services : WF_vars(HealthCheck(c))

ChecksExited == \A c \in Services : checkPc[c] = "exited"

C24_EveryServiceCountedOnce ==
    /\ []SelSafe
    /\ <>[](selPc = "done")
    /\ ChecksAreRun => <>[]ChecksExited

C24_Witness ==
    /\ selPc = "done"
    /\ Counted = numServices
    /\ timeoutServices >= 1
    /\ \E c \in Services :
          /\ checkPc[c] = "exited"
          /\ Len(resultCh[c]) + Len(errorCh[c]) = 1
====
